---- MODULE Spec2Model ----
(***************************************************************************)
(* hls_transcoder: the pipeline builder (src/src/pipeline_builder.rs), its *)
(* stream-discovery callback, and the control thread of                    *)
(* src/examples/builder_example.rs that drives the built pipeline.         *)
(*                                                                         *)
(* The GStreamer engine is the environment: which element factories it     *)
(* can instantiate, which pairs of stages it refuses to link, whether it   *)
(* acknowledges a state request, which streams decodebin announces and     *)
(* which messages it posts on the bus are inputs drawn from small sets.    *)
(***************************************************************************)
EXTENDS Integers, Sequences, FiniteSets, TLC

\* ------------------------------------------------------------- bounds
\* Streams decodebin announces in one run.
MaxStreams == 3
\* Messages the engine posts on the bus in one run.
MaxEvents == 2

\* ------------------------------------------------------------- names
\* An endpoint of a link: an element <<name, 0>>, or the i-th source pad
\* decodebin added, <<"decodebin", i>> with i >= 1.
El(n) == <<n, 0>>
SrcPad(i) == <<"decodebin", i>>

\* Element factories PipelineBuilder::new uses (elements_builder/*.rs).
NewFactories(accel) ==
    << "filesrc", "decodebin", "capsfilter", "mpegtsmux",
       IF accel THEN "nvh264enc" ELSE "x264enc", "hlssink" >>

\* Element factories build() uses itself, in creation order, with the context
\* text attached to the error (<<>> where `?` is used without .context()).
BuildFactories ==
    << [factory |-> "queue",         name |-> "video_queue",   ctx |-> <<"Failed to create video queue element">>],
       [factory |-> "videoscale",    name |-> "videoscale",    ctx |-> <<"Failed to create video scaler element">>],
       [factory |-> "h264parse",     name |-> "h264parse",     ctx |-> <<"Failed to create h264parse element">>],
       [factory |-> "queue",         name |-> "audio_queue",   ctx |-> <<"Failed to create audio queue">>],
       [factory |-> "audioconvert",  name |-> "audioconvert",  ctx |-> <<>>],
       [factory |-> "audioresample", name |-> "audioresample", ctx |-> <<>>],
       [factory |-> "identity",      name |-> "identity",      ctx |-> <<>>],
       [factory |-> "avenc_aac",     name |-> "avenc_aac",     ctx |-> <<>>],
       [factory |-> "aacparse",      name |-> "aacparse",      ctx |-> <<>>] >>

Factories ==
    { "filesrc", "decodebin", "capsfilter", "mpegtsmux", "nvh264enc", "x264enc",
      "hlssink", "queue", "videoscale", "h264parse", "audioconvert",
      "audioresample", "identity", "avenc_aac", "aacparse" }

\* The elements pipeline.add_many puts into the pipeline.
AddedNames ==
    { "filesrc", "decodebin", "video_queue", "videoscale", "capsfilter",
      "video_encoder", "h264parse", "audio_queue", "audioconvert",
      "audioresample", "identity", "avenc_aac", "aacparse", "mpegtsmux",
      "hls_sink" }

\* The video chain with scaler and format filter in the wrong order.
VideoChainMutC8 ==
    << "video_queue", "capsfilter", "videoscale", "video_encoder", "h264parse", "mpegtsmux" >>
\* The stages link_many chains in the video branch of the callback.
VideoChain ==
    << "video_queue", "videoscale", "capsfilter", "video_encoder", "h264parse", "mpegtsmux" >>

\* An audio chain that runs through the video encoder.
AudioChainMutC29 ==
    << "audio_queue", "audioconvert", "audioresample", "identity", "video_encoder", "h264parse", "mpegtsmux" >>
\* The audio chain without the identity probe.
AudioChainMutC9 ==
    << "audio_queue", "audioconvert", "audioresample", "avenc_aac", "aacparse", "mpegtsmux" >>
\* The stages link_many chains in the audio branch of the callback.
AudioChain ==
    << "audio_queue", "audioconvert", "audioresample", "identity", "avenc_aac", "aacparse", "mpegtsmux" >>

\* Links between two existing stages that the engine may refuse (a format or
\* capability mismatch): the two static links and, of each branch, a link in
\* the middle of the chain and the link into the muxer.
StagePairs ==
    { <<El("filesrc"), El("decodebin")>>,
      <<El("mpegtsmux"), El("hls_sink")>>,
      <<El("videoscale"), El("capsfilter")>>,
      <<El("h264parse"), El("mpegtsmux")>>,
      <<El("audio_queue"), El("audioconvert")>>,
      <<El("aacparse"), El("mpegtsmux")>> }

\* ------------------------------------------------------------- media types
\* Media type names of a pad's caps, as character sequences.
VideoRaw == << "v", "i", "d", "e", "o", "/", "x", "-", "r", "a", "w" >>
AudioRaw == << "a", "u", "d", "i", "o", "/", "x", "-", "r", "a", "w" >>
TextRaw == << "t", "e", "x", "t", "/", "x", "-", "r", "a", "w" >>
\* A pad without negotiated caps: current_caps() returns None.
NoCaps == << >>
PadCaps == { VideoRaw, AudioRaw, TextRaw, NoCaps }

\* str::starts_with
StartsWith(s, prefix) ==
    /\ Len(s) >= Len(prefix)
    /\ SubSeq(s, 1, Len(prefix)) = prefix

\* A classification that takes everything that is not video for audio.
ClassifyMutC7(padType) ==
    IF StartsWith(padType, << "v", "i", "d", "e", "o" >>) THEN "video" ELSE "audio"
\* The branch the callback takes for a pad type.
Classify(padType) ==
    IF StartsWith(padType, << "v", "i", "d", "e", "o" >>) THEN "video"
    ELSE IF StartsWith(padType, << "a", "u", "d", "i", "o" >>) THEN "audio"
    ELSE "none"

\* ------------------------------------------------------------- bus
\* Error texts the engine reports.
Msgs == { << "decode failure" >>, << "not-linked" >> }
Eos == [kind |-> "Eos", msg |-> << >>]
Other == [kind |-> "Other", msg |-> << >>]
Error(m) == [kind |-> "Error", msg |-> m]
Messages == { Eos, Other } \cup { Error(m) : m \in Msgs }

\* A failure text that loses the engine's message.
ErrorTextMutC2(m) == << "Error: " >>
\* anyhow!("Error: {}", err.error())
ErrorText(m) == << "Error: " >> \o m

\* An event loop that any message but an error ends.
OnMessageMutC23(msg) ==
    IF msg.kind = "Error" THEN "return" ELSE "break"
\* An event loop that nothing ends.
OnMessageMutC24(msg) == "continue"
\* An event loop that does not stop at end of stream.
OnMessageMutC3(msg) ==
    IF msg.kind = "Error" THEN "return" ELSE "continue"
\* What the event loop does with one message.
OnMessage(msg) ==
    IF msg.kind = "Eos" THEN "break"
    ELSE IF msg.kind = "Error" THEN "return"
    ELSE "continue"

\* The context of another state request.
PlayingContextMutC25 == << "Failed to set pipeline to null state" >>
PlayingContext == << "Failed to set pipeline to playing state" >>
StateChangeError == << "Element failed to change its state" >>
NoResult == [kind |-> "None", text |-> << >>]
Ok == [kind |-> "Ok", text |-> << >>]
Err(t) == [kind |-> "Err", text |-> t]

VARIABLES
    registry,   \* factories the engine can instantiate
    refused,    \* pairs of stages the engine refuses to link
    nvh,        \* the acceleration flag main gives to PipelineBuilder::new
    pc,         \* position of the control thread
    result,     \* what main returned
    panicked,   \* the process was aborted by a panic
    owner,      \* the control thread holds the pipeline
    nodes,      \* names of the elements in the pipeline
    links,      \* links made, as pairs of endpoints
    linkLog,    \* every link attempt, in order
    lookups,    \* by_name lookups the callback made, <<stream, name>>
    state,      \* PipelineState of the pipeline
    started,    \* the engine's streaming threads have been started
    requests,   \* state requests issued by the control thread, in order
    events,     \* messages the engine posted on the bus, in order
    nConsumed,  \* how many of them the event loop has taken
    streams,    \* one record per pad-added callback, in order
    created,    \* names of the elements instantiated so far, in order
    enc,        \* the H.264 encoder builder: the properties set on its element
    last        \* the last call made on the encoder builder

vars ==
    << registry, refused, nvh, pc, result, panicked, owner, nodes, links,
       linkLog, lookups, state, started, requests, events, nConsumed, streams,
       created, enc, last >>

ctlVars == << pc, result, owner, state, started, requests, nConsumed >>
graphVars == << nodes, links, linkLog, lookups >>
envVars == << registry, refused, nvh >>
encVars == << enc, last >>

\* ------------------------------------------------------------- the engine
\* The pipeline exists while the control thread holds it or a running
\* callback holds the strong reference it got from upgrade().
InFlight == Len(streams) > 0 /\ streams[Len(streams)].outcome = "running"
\* A pipeline that only the control thread keeps alive.
GraphAliveMutC27 == owner
GraphAlive == owner \/ InFlight

\* A callback that holds the pipeline itself: the reference is always there.
WeakUpgradeMutC6 == TRUE
\* A validity check that also fails once the control thread asked for Null.
WeakUpgradeMutC28 == (owner \/ InFlight) /\ ~ \E k \in DOMAIN requests : requests[k] = "Null"
\* pipeline_weak.upgrade(): Some exactly while the pipeline exists.
WeakUpgrade == GraphAlive

\* A source pad links once; a sink pad links once, except on mpegtsmux,
\* which hands out a new request pad (sink_%d) for every link. Linking a pad
\* that is already linked fails.
SrcFree(a, L) == ~ \E l \in L : l[1] = a
\* A muxer with a single sink pad.
SinkFreeMutC10(b, L) == ~ \E l \in L : l[2] = b
\* A sink pad links once, mpegtsmux's request pads apart.
SinkFree(b, L) == b = El("mpegtsmux") \/ ~ \E l \in L : l[2] = b
CanLink(a, b, L) == <<a, b>> \notin refused /\ SrcFree(a, L) /\ SinkFree(b, L)

LinkEntry(a, b, ok, by) == [from |-> a, to |-> b, ok |-> ok, by |-> by]

\* One link attempt on the topology [links, log, ok].
LinkOne(a, b, by, g) ==
    IF CanLink(a, b, g.links)
    THEN [links |-> g.links \cup { <<a, b>> },
          log   |-> Append(g.log, LinkEntry(a, b, TRUE, by)),
          ok    |-> TRUE]
    ELSE [links |-> g.links,
          log   |-> Append(g.log, LinkEntry(a, b, FALSE, by)),
          ok    |-> FALSE]

\* gst::Element::link_many: links chain[k] -> chain[k+1] in order and stops
\* at the first link that fails, leaving the earlier ones in place.
RECURSIVE LinkFrom(_, _, _, _)
LinkFrom(chain, k, by, g) ==
    IF k >= Len(chain) THEN g
    ELSE LET g1 == LinkOne(El(chain[k]), El(chain[k + 1]), by, g)
         IN  IF g1.ok THEN LinkFrom(chain, k + 1, by, g1) ELSE g1
LinkMany(chain, by, g) == LinkFrom(chain, 1, by, g)

\* ------------------------------------------------------------- encoder builders
\* A property of the encoder element: << >> while the builder has not set it,
\* << v >> once it holds v.
Unset == << >>
Min(a, b) == IF a < b THEN a ELSE b

NoEncoder ==
    [variant |-> "None", bitrate |-> Unset, bframes |-> Unset, gop_size |-> Unset,
     profile |-> Unset, preset |-> Unset, rc_mode |-> Unset, speed_preset |-> Unset,
     tune |-> Unset, threads |-> Unset, key_int_max |-> Unset]
\* What the builder was last asked: the method, its numeric or string
\* argument, what it returned, the properties before it and the number of
\* trait calls so far.
NoCall ==
    [op |-> "none", num |-> 0, str |-> "", ret |-> "Ok", text |-> << >>,
     before |-> NoEncoder, n |-> 0]
Call(op, num, str, ret, text, before, n) ==
    [op |-> op, num |-> num, str |-> str, ret |-> ret, text |-> text,
     before |-> before, n |-> n]

\* The factory each variant of H264Encoder creates its element from.
EncoderFactory(accel) == IF accel THEN "nvh264enc" ELSE "x264enc"

\* A profile list without the baseline profiles.
NvValidProfilesMutC17 == { "main", "high", "high-4:4:4" }
\* NVH264EncBuilder::VALID_PROFILES
NvValidProfiles == { "main", "high", "high-4:4:4", "baseline", "constrained-baseline" }
\* Xh264EncBuilder::VALID_PROFILES
XValidProfiles == { }

\* NVH264EncBuilder::new
NvNew == [NoEncoder EXCEPT !.variant = "Nvenc"]

\* A clamp that forgets the conversion to kbps.
NvClampBitrateMutC14(bitrate) == Min(bitrate, 2048000)
\* NVH264EncBuilder::with_bitrate: the value it stores
NvClampBitrate(bitrate) ==
    LET capped_bitrate == Min(bitrate, 2048000)
    IN  IF capped_bitrate > 1000000 THEN capped_bitrate \div 1000 ELSE capped_bitrate
NvWithBitrate(e, bitrate) == [e EXCEPT !.bitrate = << NvClampBitrate(bitrate) >>]

\* NVH264EncBuilder::with_bframes
NvClampBframes(bframes) == Min(bframes, 4)
NvWithBframes(e, bframes) == [e EXCEPT !.bframes = << NvClampBframes(bframes) >>]

\* NVH264EncBuilder::with_gop_size: size.clamp(-1, 2_147_483_647)
NvClampGopSize(size) ==
    IF size < -1 THEN -1 ELSE IF size > 2147483647 THEN 2147483647 ELSE size
NvWithGopSize(e, size) == [e EXCEPT !.gop_size = << NvClampGopSize(size) >>]

\* NVH264EncBuilder::with_rate_control_mode, with_preset
NvWithRateControlMode(e, mode) == [e EXCEPT !.rc_mode = << mode >>]
NvWithPreset(e, preset) == [e EXCEPT !.preset = << preset >>]

\* A with_profile that sets the property before it validates.
NvWithProfileMutC19(e, profile) ==
    IF profile \in NvValidProfiles
    THEN [enc |-> [e EXCEPT !.profile = << profile >>], ret |-> "Ok", text |-> << >>]
    ELSE [enc |-> [e EXCEPT !.profile = << profile >>], ret |-> "Err",
          text |-> << "Invalid profile: ", profile, ". Valid options are: " >>]
\* NVH264EncBuilder::with_profile
NvWithProfile(e, profile) ==
    IF profile \in NvValidProfiles
    THEN [enc |-> [e EXCEPT !.profile = << profile >>], ret |-> "Ok", text |-> << >>]
    ELSE [enc |-> e, ret |-> "Err",
          text |-> << "Invalid profile: ", profile, ". Valid options are: " >>]

\* Defaults with the GOP size of the software encoder.
NvDefaultMutC20 ==
    NvWithRateControlMode(
        NvWithPreset(
            NvWithBframes(NvWithGopSize(NvWithBitrate(NvNew, 1000), 30), 0),
            "hp"),
        "cbr")
\* NVH264EncBuilder::default
NvDefault ==
    NvWithRateControlMode(
        NvWithPreset(
            NvWithBframes(NvWithGopSize(NvWithBitrate(NvNew, 1000), 75), 0),
            "hp"),
        "cbr")

\* Xh264EncBuilder::new and Xh264EncBuilder::default, which adds nothing
XNew ==
    [NoEncoder EXCEPT !.variant = "X264", !.speed_preset = << "superfast" >>,
                      !.tune = << "zerolatency" >>, !.threads = << 16 >>,
                      !.key_int_max = << 30 >>]
XDefault == XNew

\* A clamp that converts to kbps above 1000 instead of above 1000000.
XClampBitrateMutC30(bitrate) ==
    LET capped_bitrate == IF bitrate > 2048000 THEN 2048000 ELSE bitrate
    IN  IF capped_bitrate > 1000 THEN capped_bitrate \div 1000 ELSE capped_bitrate
\* Xh264EncBuilder::with_bitrate: the value it stores
XClampBitrate(bitrate) ==
    LET capped_bitrate == IF bitrate > 2048000 THEN 2048000 ELSE bitrate
    IN  IF capped_bitrate > 1000000 THEN capped_bitrate \div 1000 ELSE capped_bitrate
XWithBitrate(e, bitrate) == [e EXCEPT !.bitrate = << XClampBitrate(bitrate) >>]

\* A cap that lets five B-frames through.
XClampBframesMutC15(bframes) == IF bframes > 5 THEN 4 ELSE bframes
\* Xh264EncBuilder::with_bframes
XClampBframes(bframes) == IF bframes > 4 THEN 4 ELSE bframes
XWithBframes(e, bframes) == [e EXCEPT !.bframes = << XClampBframes(bframes) >>]

\* A clamp with the lower end at zero.
XClampGopSizeMutC16(size) ==
    IF size < 0 THEN 0 ELSE IF size > 2147483647 THEN 2147483647 ELSE size
\* Xh264EncBuilder::with_gop_size
XClampGopSize(size) ==
    IF size < -1 THEN -1 ELSE IF size > 2147483647 THEN 2147483647 ELSE size
XWithGopSize(e, size) == [e EXCEPT !.gop_size = << XClampGopSize(size) >>]

\* Xh264EncBuilder::with_rate_control_mode, with_preset
XWithRateControlMode(e, mode) == [e EXCEPT !.rc_mode = << mode >>]
XWithPreset(e, preset) == [e EXCEPT !.preset = << preset >>]

\* Xh264EncBuilder::with_profile: todo!()
XWithProfile(e, profile) ==
    [enc |-> e, ret |-> "Panic", text |-> << "not yet implemented" >>]

\* A dispatch that clamps for the hardware variant only.
H264EncoderWithBitrateMutC21(e, bitrate) ==
    IF e.variant = "Nvenc" THEN NvWithBitrate(e, bitrate)
    ELSE [e EXCEPT !.bitrate = << bitrate >>]
\* H264Encoder::with_bitrate: the variant's with_bitrate, the tag kept
H264EncoderWithBitrate(e, bitrate) ==
    IF e.variant = "Nvenc" THEN NvWithBitrate(e, bitrate) ELSE XWithBitrate(e, bitrate)

\* The trait methods, on whichever builder e is.
WithBitrate(e, b) == IF e.variant = "Nvenc" THEN NvWithBitrate(e, b) ELSE XWithBitrate(e, b)
WithBframes(e, n) == IF e.variant = "Nvenc" THEN NvWithBframes(e, n) ELSE XWithBframes(e, n)
WithGopSize(e, g) == IF e.variant = "Nvenc" THEN NvWithGopSize(e, g) ELSE XWithGopSize(e, g)
WithPreset(e, t) == IF e.variant = "Nvenc" THEN NvWithPreset(e, t) ELSE XWithPreset(e, t)
WithRateControlMode(e, m) ==
    IF e.variant = "Nvenc" THEN NvWithRateControlMode(e, m) ELSE XWithRateControlMode(e, m)
WithProfile(e, p) == IF e.variant = "Nvenc" THEN NvWithProfile(e, p) ELSE XWithProfile(e, p)

\* Arguments the callers pass: u32 bitrates and B-frame counts, i32 GOP sizes,
\* profile, preset and rate-control names. The largest values are the largest
\* a 32-bit signed integer holds; every larger u32 takes the same branches.
Bitrates == { 0, 1000, 2048, 500000, 1000000, 1000001, 2048000, 2048001, 3000000, 2147483647 }
BframeCounts == { 0, 1, 4, 5, 10, 2147483647 }
GopSizes == { -2147483647, -5, -2, -1, 0, 100, 2147483647 }
Profiles == { "main", "high", "baseline", "constrained-baseline", "extended", "High", "" }
Presets == { "hp", "default" }
RateControlModes == { "cbr", "vbr" }

\* ------------------------------------------------------------- control thread
Init ==
    /\ registry \in { Factories \ m : m \in { {} } \cup { {f} : f \in Factories } }
    /\ refused \in { {} } \cup { {p} : p \in StagePairs }
    /\ nvh = TRUE
    /\ pc = "new"
    /\ result = NoResult
    /\ panicked = FALSE
    /\ owner = FALSE
    /\ nodes = {}
    /\ links = {}
    /\ linkLog = << >>
    /\ lookups = {}
    /\ state = "Null"
    /\ started = FALSE
    /\ requests = << >>
    /\ events = << >>
    /\ nConsumed = 0
    /\ streams = << >>
    /\ created = << >>
    /\ enc = NoEncoder
    /\ last = NoCall

\* The names the element builders give the elements they create, in the
\* order PipelineBuilder::new calls them.
NewNames ==
    << "filesrc", "decodebin", "capsfilter", "mpegtsmux", "video_encoder", "hls_sink" >>

\* The first element of PipelineBuilder::new the engine cannot instantiate.
FirstMissingNew ==
    IF \E k \in DOMAIN NewFactories(nvh) : NewFactories(nvh)[k] \notin registry
    THEN CHOOSE k \in DOMAIN NewFactories(nvh) :
            /\ NewFactories(nvh)[k] \notin registry
            /\ \A j \in 1 .. (k - 1) : NewFactories(nvh)[j] \in registry
    ELSE 0

\* PipelineBuilder::new: every element builder it calls creates its element
\* with expect()/unwrap(). The encoder's parameters are followed in SpecEnc.
New ==
    /\ pc = "new" /\ ~panicked
    /\ IF \A k \in DOMAIN NewFactories(nvh) : NewFactories(nvh)[k] \in registry
       THEN pc' = "build" /\ panicked' = FALSE /\ created' = NewNames
       ELSE /\ pc' = "new" /\ panicked' = TRUE
            /\ created' = SubSeq(NewNames, 1, FirstMissingNew - 1)
    /\ UNCHANGED << result, owner, state, started, requests, nConsumed,
                    events, streams >>
    /\ UNCHANGED graphVars
    /\ UNCHANGED envVars
    /\ UNCHANGED encVars

BuildContext == << "Failed to build pipeline" >>
\* The engine's error names the factory it could not instantiate.
FactoryError(f) == << "Failed to create element from factory name", f >>
\* A lookup under a name no element of the pipeline has.
MuxerLookupMutC11 == "muxer"
\* pipeline.by_name("mpegtsmux")
MuxerLookup == "mpegtsmux"
\* The names of the first n elements build() creates itself.
BuiltNames(n) == [k \in 1 .. n |-> BuildFactories[k].name]
LinkError == << "Failed to link elements" >>

\* The first stage of build() whose factory the engine cannot instantiate.
FirstMissing ==
    IF \E k \in DOMAIN BuildFactories : BuildFactories[k].factory \notin registry
    THEN CHOOSE k \in DOMAIN BuildFactories :
            /\ BuildFactories[k].factory \notin registry
            /\ \A j \in 1 .. (k - 1) : BuildFactories[j].factory \in registry
    ELSE 0

\* PipelineBuilder::build, and main's `.context("Failed to build pipeline")?`.
Build ==
    /\ pc = "build" /\ ~panicked
    /\ LET g0 == [links |-> links, log |-> linkLog, ok |-> TRUE]
           g1 == LinkOne(El("filesrc"), El("decodebin"), 0, g0)
           g2 == IF MuxerLookup \in AddedNames
                 THEN LinkOne(El("mpegtsmux"), El("hls_sink"), 0, g1)
                 ELSE g1
       IN  IF FirstMissing # 0
           THEN /\ result' = Err(BuildContext \o BuildFactories[FirstMissing].ctx
                                    \o FactoryError(BuildFactories[FirstMissing].factory))
                /\ pc' = "done"
                /\ UNCHANGED << owner, nodes, links, linkLog >>
           ELSE IF ~g1.ok
           THEN /\ result' = Err(BuildContext \o << "Failed to link FileSrc to DecodeBin" >> \o LinkError)
                /\ pc' = "done"
                /\ nodes' = AddedNames
                /\ links' = g1.links /\ linkLog' = g1.log
                /\ UNCHANGED owner
           ELSE IF ~g2.ok
           THEN /\ result' = Err(BuildContext \o << "Failed to link MpegTsMux to HlsSink3" >> \o LinkError)
                /\ pc' = "done"
                /\ nodes' = AddedNames
                /\ links' = g2.links /\ linkLog' = g2.log
                /\ UNCHANGED owner
           ELSE /\ pc' = "play"
                /\ owner' = TRUE
                /\ nodes' = AddedNames
                /\ links' = g2.links /\ linkLog' = g2.log
                /\ UNCHANGED result
    /\ created' = created \o BuiltNames(IF FirstMissing # 0
                                        THEN FirstMissing - 1
                                        ELSE Len(BuildFactories))
    /\ UNCHANGED << panicked, lookups, state, started, requests, nConsumed,
                    events, streams >>
    /\ UNCHANGED envVars
    /\ UNCHANGED encVars

\* pipeline.set_state(Playing).context(..)?
Play ==
    /\ pc = "play" /\ ~panicked
    /\ requests' = Append(requests, "Playing")
    /\ \E ack \in BOOLEAN :
        IF ack
        THEN /\ state' = "Playing" /\ started' = TRUE /\ pc' = "loop"
             /\ UNCHANGED << result, owner >>
        ELSE /\ result' = Err(PlayingContext \o StateChangeError)
             /\ pc' = "done" /\ owner' = FALSE
             /\ UNCHANGED << state, started >>
    /\ UNCHANGED << panicked, nConsumed, events, streams >>
    /\ UNCHANGED graphVars
    /\ UNCHANGED envVars
    /\ UNCHANGED << created, encVars >>

\* One turn of `for msg in bus.iter_timed(NONE)`: blocks until a message is
\* there, takes it, and matches on it.
Loop ==
    /\ pc = "loop" /\ ~panicked
    /\ nConsumed < Len(events)
    /\ nConsumed' = nConsumed + 1
    /\ LET msg == events[nConsumed + 1]
           todo == OnMessage(msg)
       IN  IF todo = "break"
           THEN pc' = "null" /\ UNCHANGED << result, owner >>
           ELSE IF todo = "return"
           THEN pc' = "done" /\ result' = Err(ErrorText(msg.msg)) /\ owner' = FALSE
           ELSE UNCHANGED << pc, result, owner >>
    /\ UNCHANGED << panicked, state, started, requests, events, streams >>
    /\ UNCHANGED graphVars
    /\ UNCHANGED envVars
    /\ UNCHANGED << created, encVars >>

\* pipeline.set_state(Null)?
RequestNull ==
    /\ pc = "null" /\ ~panicked
    /\ requests' = Append(requests, "Null")
    /\ \E ack \in BOOLEAN :
        IF ack
        THEN state' = "Null" /\ pc' = "ret" /\ UNCHANGED << result, owner >>
        ELSE /\ result' = Err(StateChangeError)
             /\ pc' = "done" /\ owner' = FALSE
             /\ UNCHANGED state
    /\ UNCHANGED << panicked, started, nConsumed, events, streams >>
    /\ UNCHANGED graphVars
    /\ UNCHANGED envVars
    /\ UNCHANGED << created, encVars >>

\* Ok(()): main returns and drops the pipeline.
Return ==
    /\ pc = "ret" /\ ~panicked
    /\ result' = Ok /\ pc' = "done" /\ owner' = FALSE
    /\ UNCHANGED << panicked, state, started, requests, nConsumed, events, streams >>
    /\ UNCHANGED graphVars
    /\ UNCHANGED envVars
    /\ UNCHANGED << created, encVars >>

\* ------------------------------------------------------------- engine threads
\* The engine posts a message on the pipeline's bus. Messages posted once the
\* event loop has been left are never read, and are left out.
PostEvent ==
    /\ started /\ pc = "loop" /\ ~panicked
    /\ Len(events) < MaxEvents
    /\ \E m \in Messages : events' = Append(events, m)
    /\ UNCHANGED << panicked, streams >>
    /\ UNCHANGED ctlVars
    /\ UNCHANGED graphVars
    /\ UNCHANGED envVars
    /\ UNCHANGED << created, encVars >>

\* A decodebin that announces pads as soon as it is in a pipeline.
DiscoveringMutC22 == nodes # {}
\* decodebin discovers streams once set_state(Playing) has started the
\* pipeline; nothing in the closure or in main holds it back after that.
Discovering == started

\* decodebin announces a pad and the callback starts: upgrade, or return.
PadAdded ==
    /\ Discovering /\ ~panicked /\ ~InFlight
    /\ Len(streams) < MaxStreams
    /\ \E caps \in PadCaps :
        streams' = Append(streams,
            [caps       |-> caps,
             graphAlive |-> GraphAlive,
             afterNull  |-> "Null" \in { requests[k] : k \in DOMAIN requests },
             outcome    |-> IF WeakUpgrade THEN "running" ELSE "nograph"])
    /\ UNCHANGED << panicked, events >>
    /\ UNCHANGED ctlVars
    /\ UNCHANGED graphVars
    /\ UNCHANGED envVars
    /\ UNCHANGED << created, encVars >>

\* by_name(queue).unwrap(), src_pad.link(sink).unwrap(), link_many(..).unwrap()
Route(i, queue, chain) ==
    LET g0 == [links |-> links, log |-> linkLog, ok |-> TRUE]
        g1 == LinkOne(SrcPad(i), El(queue), i, g0)
        g2 == IF g1.ok THEN LinkMany(chain, i, g1) ELSE g1
    IN  /\ lookups' = lookups \cup { <<i, queue>> }
        /\ IF queue \notin nodes
           THEN /\ UNCHANGED << links, linkLog >>
                /\ panicked' = TRUE
                /\ streams' = [streams EXCEPT ![i].outcome = "panic"]
           ELSE /\ links' = g2.links
                /\ linkLog' = g2.log
                /\ panicked' = ~g2.ok
                /\ streams' = [streams EXCEPT
                                 ![i].outcome = IF g2.ok THEN "linked" ELSE "panic"]

\* The rest of the pad-added callback, once upgrade() gave the pipeline.
Callback ==
    /\ InFlight /\ ~panicked
    /\ LET i == Len(streams)
           caps == streams[i].caps
       IN  IF caps = NoCaps
           THEN /\ panicked' = TRUE
                /\ streams' = [streams EXCEPT ![i].outcome = "panic"]
                /\ UNCHANGED << links, linkLog, lookups >>
           ELSE IF Classify(caps) = "video"
           THEN Route(i, "video_queue", VideoChain)
           ELSE IF Classify(caps) = "audio"
           THEN Route(i, "audio_queue", AudioChain)
           ELSE /\ streams' = [streams EXCEPT ![i].outcome = "ignored"]
                /\ UNCHANGED << panicked, links, linkLog, lookups >>
    /\ UNCHANGED << nodes, events >>
    /\ UNCHANGED ctlVars
    /\ UNCHANGED envVars
    /\ UNCHANGED << created, encVars >>

Next ==
    \/ New
    \/ Build
    \/ Play
    \/ Loop
    \/ RequestNull
    \/ Return
    \/ PostEvent
    \/ PadAdded
    \/ Callback

Spec == Init /\ [][Next]_vars

\* The control thread is a running thread: a step of main that can be taken
\* is taken. Nothing obliges the engine to post a message or to announce a pad.
Fairness == WF_vars(Loop) /\ WF_vars(RequestNull) /\ WF_vars(Return)
SpecLive == Spec /\ Fairness

\* ------------------------------------------------------------- state transitions test
\* tests::test_pipeline_state_transitions as the control thread: the builder
\* of create_pipeline_builder (acceleration on), build().unwrap(), then
\* transition_pipeline_states. The engine threads are those of Spec; nobody
\* reads the bus.

\* A transition order that pauses before the pipeline is ready.
TestStatesMutC26 == << "Paused", "Ready", "Playing", "Null" >>
\* The states transition_pipeline_states requests, in order.
TestStates == << "Ready", "Paused", "Playing", "Null" >>

\* create_pipeline_builder().build().unwrap()
TestBuild ==
    /\ pc = "build" /\ ~panicked
    /\ LET g0 == [links |-> links, log |-> linkLog, ok |-> TRUE]
           g1 == LinkOne(El("filesrc"), El("decodebin"), 0, g0)
           g2 == IF MuxerLookup \in AddedNames
                 THEN LinkOne(El("mpegtsmux"), El("hls_sink"), 0, g1)
                 ELSE g1
       IN  IF FirstMissing # 0
           THEN /\ panicked' = TRUE
                /\ UNCHANGED << pc, owner, nodes, links, linkLog >>
           ELSE IF ~g1.ok
           THEN /\ panicked' = TRUE
                /\ nodes' = AddedNames
                /\ links' = g1.links /\ linkLog' = g1.log
                /\ UNCHANGED << pc, owner >>
           ELSE IF ~g2.ok
           THEN /\ panicked' = TRUE
                /\ nodes' = AddedNames
                /\ links' = g2.links /\ linkLog' = g2.log
                /\ UNCHANGED << pc, owner >>
           ELSE /\ pc' = "test"
                /\ owner' = TRUE
                /\ nodes' = AddedNames
                /\ links' = g2.links /\ linkLog' = g2.log
                /\ UNCHANGED panicked
    /\ created' = created \o BuiltNames(IF FirstMissing # 0
                                        THEN FirstMissing - 1
                                        ELSE Len(BuildFactories))
    /\ UNCHANGED << result, lookups, state, started, requests, nConsumed,
                    events, streams >>
    /\ UNCHANGED envVars
    /\ UNCHANGED encVars

\* One `pipeline.set_state(..).unwrap()` of transition_pipeline_states; after
\* the last one the test returns and drops the pipeline. decodebin starts to
\* discover streams when the pipeline gets to Paused.
TestTransition ==
    /\ pc = "test" /\ ~panicked
    /\ Len(requests) < Len(TestStates)
    /\ LET target == TestStates[Len(requests) + 1]
       IN  /\ requests' = Append(requests, target)
           /\ \E ack \in BOOLEAN :
                IF ack
                THEN /\ state' = target
                     /\ started' = (started \/ target \in { "Paused", "Playing" })
                     /\ IF Len(requests') = Len(TestStates)
                        THEN pc' = "done" /\ owner' = FALSE /\ result' = Ok
                        ELSE UNCHANGED << pc, owner, result >>
                     /\ UNCHANGED panicked
                ELSE /\ panicked' = TRUE
                     /\ UNCHANGED << state, started, pc, owner, result >>
    /\ UNCHANGED << nConsumed, events, streams >>
    /\ UNCHANGED graphVars
    /\ UNCHANGED envVars
    /\ UNCHANGED << created, encVars >>

\* The engine posts a message on the bus; the test never reads it.
TestPost ==
    /\ started /\ pc = "test" /\ ~panicked
    /\ Len(events) < MaxEvents
    /\ \E m \in Messages : events' = Append(events, m)
    /\ UNCHANGED << panicked, streams >>
    /\ UNCHANGED ctlVars
    /\ UNCHANGED graphVars
    /\ UNCHANGED envVars
    /\ UNCHANGED << created, encVars >>

TestNext ==
    \/ New
    \/ TestBuild
    \/ TestTransition
    \/ TestPost
    \/ PadAdded
    \/ Callback

SpecTest == Init /\ [][TestNext]_vars

\* ------------------------------------------------------------- encoder configuration
\* The encoder builder on its own: what PipelineBuilder::new does with it and
\* what a caller of the H264EncBuilder trait can do with it. The pipeline's
\* other variables stay as they are after construction.
MaxCalls == 2

EncInit ==
    /\ registry \in { Factories, Factories \ { "nvh264enc" }, Factories \ { "x264enc" } }
    /\ refused = {}
    /\ nvh \in BOOLEAN
    /\ pc = "new"
    /\ result = NoResult
    /\ panicked = FALSE
    /\ owner = FALSE
    /\ nodes = {}
    /\ links = {}
    /\ linkLog = << >>
    /\ lookups = {}
    /\ state = "Null"
    /\ started = FALSE
    /\ requests = << >>
    /\ events = << >>
    /\ nConsumed = 0
    /\ streams = << >>
    /\ created = << >>
    /\ enc = NoEncoder
    /\ last = NoCall

restVars ==
    << registry, refused, nvh, pc, result, owner, nodes, links, linkLog,
       lookups, state, started, requests, events, nConsumed, streams >>

\* `if acceleration { Nvenc(NVH264EncBuilder::default()) } else
\* { X264(Xh264EncBuilder::default()) }`: new() of either builder creates the
\* element with expect()/unwrap().
EncSelect ==
    /\ last.op = "none" /\ ~panicked
    /\ IF EncoderFactory(nvh) \in registry
       THEN /\ enc' = IF nvh THEN NvDefault ELSE XDefault
            /\ last' = Call("default", 0, "", "Ok", << >>, enc, 0)
            /\ created' = Append(created, "video_encoder")
            /\ UNCHANGED panicked
       ELSE /\ panicked' = TRUE
            /\ UNCHANGED << enc, last, created >>
    /\ UNCHANGED restVars

\* `video_encoder.with_bitrate(bitrate)` of PipelineBuilder::new
EncApplyBitrate ==
    /\ last.op = "default" /\ ~panicked
    /\ \E bitrate \in Bitrates :
        /\ enc' = H264EncoderWithBitrate(enc, bitrate)
        /\ last' = Call("new_bitrate", bitrate, "", "Ok", << >>, enc, last.n)
    /\ UNCHANGED << panicked, created >>
    /\ UNCHANGED restVars

\* A caller holds the builder and may call the trait on it.
Callable ==
    /\ enc.variant # "None" /\ ~panicked
    /\ last.op # "new_bitrate"
    /\ last.n < MaxCalls

EncWithBitrate ==
    /\ Callable
    /\ \E bitrate \in Bitrates :
        /\ enc' = WithBitrate(enc, bitrate)
        /\ last' = Call("with_bitrate", bitrate, "", "Ok", << >>, enc, last.n + 1)
    /\ UNCHANGED << panicked, created >>
    /\ UNCHANGED restVars

EncWithBframes ==
    /\ Callable
    /\ \E bframes \in BframeCounts :
        /\ enc' = WithBframes(enc, bframes)
        /\ last' = Call("with_bframes", bframes, "", "Ok", << >>, enc, last.n + 1)
    /\ UNCHANGED << panicked, created >>
    /\ UNCHANGED restVars

EncWithGopSize ==
    /\ Callable
    /\ \E size \in GopSizes :
        /\ enc' = WithGopSize(enc, size)
        /\ last' = Call("with_gop_size", size, "", "Ok", << >>, enc, last.n + 1)
    /\ UNCHANGED << panicked, created >>
    /\ UNCHANGED restVars

EncWithRateControlMode ==
    /\ Callable
    /\ \E mode \in RateControlModes :
        /\ enc' = WithRateControlMode(enc, mode)
        /\ last' = Call("with_rate_control_mode", 0, mode, "Ok", << >>, enc, last.n + 1)
    /\ UNCHANGED << panicked, created >>
    /\ UNCHANGED restVars

EncWithPreset ==
    /\ Callable
    /\ \E preset \in Presets :
        /\ enc' = WithPreset(enc, preset)
        /\ last' = Call("with_preset", 0, preset, "Ok", << >>, enc, last.n + 1)
    /\ UNCHANGED << panicked, created >>
    /\ UNCHANGED restVars

\* with_profile returns Ok, returns an error, or (todo!()) panics.
EncWithProfile ==
    /\ Callable
    /\ \E profile \in Profiles :
        LET r == WithProfile(enc, profile)
        IN  /\ enc' = r.enc
            /\ last' = Call("with_profile", 0, profile, r.ret, r.text, enc, last.n + 1)
            /\ panicked' = (r.ret = "Panic")
    /\ UNCHANGED created
    /\ UNCHANGED restVars

EncNext ==
    \/ EncSelect
    \/ EncApplyBitrate
    \/ EncWithBitrate
    \/ EncWithBframes
    \/ EncWithGopSize
    \/ EncWithRateControlMode
    \/ EncWithPreset
    \/ EncWithProfile

SpecEnc == EncInit /\ [][EncNext]_vars

\* ------------------------------------------------------------- vocabulary of the claims
Range(q) == { q[k] : k \in DOMAIN q }
Terminal(e) == e.kind \in { "Eos", "Error" }

\* Index of the first terminal event the engine delivered, 0 if none.
FirstTerminal ==
    IF \E k \in DOMAIN events : Terminal(events[k])
    THEN CHOOSE k \in DOMAIN events :
            /\ Terminal(events[k])
            /\ \A j \in 1 .. (k - 1) : ~Terminal(events[j])
    ELSE 0

\* The control thread has left the event loop (it took a terminal event).
LeftLoop ==
    /\ pc \in { "null", "ret", "done" }
    /\ nConsumed > 0
    /\ Terminal(events[nConsumed])

\* The link attempts stream i's callback made, in order.
LogBy(i) == SelectSeq(linkLog, LAMBDA e : e.by = i)

\* Stream i was announced on a live graph with caps c, and no earlier stream
\* with those caps was.
FirstLive(i, c) ==
    /\ streams[i].caps = c
    /\ streams[i].graphAlive
    /\ \A j \in 1 .. (i - 1) : ~(streams[j].caps = c /\ streams[j].graphAlive)

\* The callback of stream i has returned or aborted.
Finished(i) == streams[i].outcome # "running"

ExpectedVideo(i) ==
    << LinkEntry(SrcPad(i), El("video_queue"), TRUE, i),
       LinkEntry(El("video_queue"), El("videoscale"), TRUE, i),
       LinkEntry(El("videoscale"), El("capsfilter"), TRUE, i),
       LinkEntry(El("capsfilter"), El("video_encoder"), TRUE, i),
       LinkEntry(El("video_encoder"), El("h264parse"), TRUE, i),
       LinkEntry(El("h264parse"), El("mpegtsmux"), TRUE, i) >>

ExpectedAudio(i) ==
    << LinkEntry(SrcPad(i), El("audio_queue"), TRUE, i),
       LinkEntry(El("audio_queue"), El("audioconvert"), TRUE, i),
       LinkEntry(El("audioconvert"), El("audioresample"), TRUE, i),
       LinkEntry(El("audioresample"), El("identity"), TRUE, i),
       LinkEntry(El("identity"), El("avenc_aac"), TRUE, i),
       LinkEntry(El("avenc_aac"), El("aacparse"), TRUE, i),
       LinkEntry(El("aacparse"), El("mpegtsmux"), TRUE, i) >>

LinksOf(q) == { <<q[k].from, q[k].to>> : k \in DOMAIN q }

\* The engine refuses no link of the video / audio branch.
VideoLinkable == refused \cap LinksOf(ExpectedVideo(0)) = {}
AudioLinkable == refused \cap LinksOf(ExpectedAudio(0)) = {}

\* Each link of q was made exactly once in the whole run.
MadeOnce(q) ==
    \A k \in DOMAIN q :
        Cardinality({ n \in DOMAIN linkLog :
            /\ linkLog[n].ok
            /\ linkLog[n].from = q[k].from
            /\ linkLog[n].to = q[k].to }) = 1

\* The stages strictly inside q form a chain: one link in, one link out.
SingleChain(q) ==
    \A k \in 2 .. Len(q) :
        /\ Cardinality({ l \in links : l[2] = q[k].from }) = 1
        /\ Cardinality({ l \in links : l[1] = q[k].from }) = 1

\* The links are exactly the successful link attempts.
LinksAreLogged ==
    links = { <<linkLog[n].from, linkLog[n].to>> : n \in { m \in DOMAIN linkLog : linkLog[m].ok } }

\* ------------------------------------------------------------- C1
\* C1: whenever the controller has left its event loop, through EndOfStream
\* or through an Error event, and has returned, it has issued the Null
\* request on the graph.
C1_NullOnEveryExit ==
    (pc = "done" /\ LeftLoop) => "Null" \in Range(requests)

\* ------------------------------------------------------------- C2
\* C2 as stated: if the first terminal event of the stream is Error(msg), the
\* run ends in failure and the failure's text is msg itself, unaltered.
C2_MessageVerbatim ==
    (pc = "done" /\ LeftLoop /\ events[FirstTerminal].kind = "Error")
        => result = Err(events[FirstTerminal].msg)

\* C2 amended: if the first terminal event of the stream is Error(msg), the
\* run ends in failure and the failure's text is "Error: " followed by msg
\* unaltered, whatever follows the Error in the stream.
C2_MessagePrefixed ==
    (pc = "done" /\ LeftLoop /\ events[FirstTerminal].kind = "Error")
        => /\ result.kind = "Err"
           /\ result.text = << "Error: " >> \o events[FirstTerminal].msg
           /\ nConsumed = FirstTerminal

C2_Witness ==
    /\ pc = "done"
    /\ events = << Error(<< "decode failure" >>), Eos >>
    /\ nConsumed = 1
    /\ requests = << "Playing" >>
    /\ result = Err(<< "Error: ", "decode failure" >>)

\* ------------------------------------------------------------- C3
\* C3 as stated: if the first terminal event is EndOfStream, the controller
\* leaves the loop, issues the Null request and returns success, and no event
\* after that EndOfStream is consumed.
C3_EosSuccess ==
    (pc = "done" /\ LeftLoop /\ events[FirstTerminal].kind = "Eos")
        => /\ requests = << "Playing", "Null" >>
           /\ result = Ok
           /\ nConsumed = FirstTerminal

\* C3 amended: if the first terminal event is EndOfStream, the controller
\* leaves the loop having consumed nothing after it, issues the Null request,
\* and returns success when the engine acknowledges that request and the
\* request's error when it does not.
C3_EosThenNull ==
    /\ (LeftLoop /\ events[FirstTerminal].kind = "Eos") => nConsumed = FirstTerminal
    /\ (pc \in { "ret", "done" } /\ LeftLoop /\ events[FirstTerminal].kind = "Eos")
            => requests = << "Playing", "Null" >>
    /\ (pc = "done" /\ LeftLoop /\ events[FirstTerminal].kind = "Eos")
            => \/ state = "Null" /\ result = Ok
               \/ state = "Playing"
                    /\ result = Err(<< "Element failed to change its state" >>)

C3_Witness ==
    /\ pc = "done"
    /\ events = << Eos, Error(<< "decode failure" >>) >>
    /\ nConsumed = 1
    /\ requests = << "Playing", "Null" >>
    /\ result = Ok

\* ------------------------------------------------------------- C4
\* Stream i is a second stream of a kind whose branch is already linked.
Duplicate(i) ==
    /\ streams[i].graphAlive
    /\ streams[i].caps \in { VideoRaw, AudioRaw }
    /\ \E j \in 1 .. (i - 1) :
        streams[j].caps = streams[i].caps /\ streams[j].outcome = "linked"

\* C4: a second discovered stream of a kind whose branch is already linked
\* makes no second link into that branch and never aborts the process: it is
\* rejected or ignored.
C4_DuplicateNeverAborts ==
    \A i \in DOMAIN streams :
        Duplicate(i) =>
            /\ streams[i].outcome # "panic"
            /\ ~panicked
            /\ \A n \in DOMAIN linkLog : linkLog[n].by = i => ~linkLog[n].ok

\* ------------------------------------------------------------- C5
\* C5: a link attempt that fails inside the callback is delivered as an Error
\* event on the bus the controller reads, and is not turned into a process
\* abort.
C5_LinkFailureOnBus ==
    \A n \in DOMAIN linkLog :
        (linkLog[n].by > 0 /\ ~linkLog[n].ok) =>
            /\ ~panicked
            /\ \E k \in DOMAIN events : events[k].kind = "Error"

\* ------------------------------------------------------------- C6
\* C6: a callback that fires when the graph has been destroyed looks up no
\* element, attempts no link, changes no topology and reports no error.
C6_DestroyedGraphNoOp ==
    \A i \in DOMAIN streams :
        ~streams[i].graphAlive =>
            /\ streams[i].outcome = "nograph"
            /\ \A n \in DOMAIN linkLog : linkLog[n].by # i
            /\ \A l \in lookups : l[1] # i
            /\ \A l \in links : l[1] # SrcPad(i)

C6_Witness ==
    /\ Len(streams) = 2
    /\ streams[1].outcome = "linked"
    /\ ~streams[2].graphAlive
    /\ streams[2].caps = AudioRaw
    /\ streams[2].outcome = "nograph"
    /\ ~panicked
    /\ ~owner

\* ------------------------------------------------------------- C7
\* Stream i has caps that are neither video nor audio.
Unrecognized(i) == streams[i].caps \notin { VideoRaw, AudioRaw, NoCaps }

\* C7: a discovered stream that is neither video nor audio causes no lookup
\* and no link attempt, leaves the links as they are and is not an error; and
\* wherever such streams arrive, the first video and the first audio stream
\* are routed as without them.
C7_UnrecognizedIgnored ==
    /\ LinksAreLogged
    /\ \A i \in DOMAIN streams :
        (streams[i].graphAlive /\ Unrecognized(i) /\ Finished(i)) =>
            /\ streams[i].outcome = "ignored"
            /\ \A n \in DOMAIN linkLog : linkLog[n].by # i
            /\ \A l \in lookups : l[1] # i
    /\ \A i \in DOMAIN streams :
        (\E j \in 1 .. (i - 1) : streams[j].graphAlive /\ Unrecognized(j)) =>
            /\ (FirstLive(i, VideoRaw) /\ VideoLinkable /\ Finished(i))
                    => LogBy(i) = ExpectedVideo(i)
            /\ (FirstLive(i, AudioRaw) /\ AudioLinkable /\ Finished(i))
                    => LogBy(i) = ExpectedAudio(i)

C7_Witness ==
    /\ Len(streams) = 3
    /\ streams[1].caps = VideoRaw /\ streams[1].outcome = "linked"
    /\ streams[2].caps = TextRaw /\ streams[2].outcome = "ignored"
    /\ streams[2].graphAlive
    /\ streams[3].caps = AudioRaw /\ streams[3].outcome = "linked"
    /\ ~panicked

\* ------------------------------------------------------------- C8
\* C8: on the first discovered Video stream of a live graph the callback
\* links the stream to the video queue and then queue -> scaler -> format
\* filter -> encoder -> parser -> muxer, in that order, each link once; the
\* video branch is then a single chain from the stream to the muxer.
C8_VideoChainInOrder ==
    \A i \in DOMAIN streams :
        (FirstLive(i, VideoRaw) /\ VideoLinkable /\ Finished(i)) =>
            /\ streams[i].outcome = "linked"
            /\ LogBy(i) = ExpectedVideo(i)
            /\ MadeOnce(ExpectedVideo(i))
            /\ LinksOf(ExpectedVideo(i)) \subseteq links
            /\ SingleChain(ExpectedVideo(i))

C8_Witness ==
    /\ Len(streams) = 1
    /\ streams[1].caps = VideoRaw
    /\ streams[1].outcome = "linked"
    /\ Len(linkLog) = 8

\* ------------------------------------------------------------- C9
\* C9: on the first discovered Audio stream of a live graph the callback
\* links the stream to the audio queue and then queue -> convert -> resample
\* -> probe -> encoder -> parser -> muxer, in that order, each link once.
C9_AudioChainInOrder ==
    \A i \in DOMAIN streams :
        (FirstLive(i, AudioRaw) /\ AudioLinkable /\ Finished(i)) =>
            /\ streams[i].outcome = "linked"
            /\ LogBy(i) = ExpectedAudio(i)
            /\ MadeOnce(ExpectedAudio(i))
            /\ LinksOf(ExpectedAudio(i)) \subseteq links

C9_Witness ==
    /\ Len(streams) = 1
    /\ streams[1].caps = AudioRaw
    /\ streams[1].outcome = "linked"
    /\ Len(linkLog) = 9

\* ------------------------------------------------------------- C10
\* The links with every discovered stream named by its kind instead of by
\* its position in the order of discovery.
KindEnd(e) ==
    IF e[2] = 0 THEN e
    ELSE IF streams[e[2]].caps = VideoRaw THEN << "video stream", 0 >>
    ELSE IF streams[e[2]].caps = AudioRaw THEN << "audio stream", 0 >>
    ELSE << "other stream", 0 >>
Topology == { << KindEnd(l[1]), l[2] >> : l \in links }

StaticTopology ==
    { << El("filesrc"), El("decodebin") >>, << El("mpegtsmux"), El("hls_sink") >> }
VideoTopology ==
    { << El("video stream"), El("video_queue") >>,
      << El("video_queue"), El("videoscale") >>,
      << El("videoscale"), El("capsfilter") >>,
      << El("capsfilter"), El("video_encoder") >>,
      << El("video_encoder"), El("h264parse") >>,
      << El("h264parse"), El("mpegtsmux") >> }
AudioTopology ==
    { << El("audio stream"), El("audio_queue") >>,
      << El("audio_queue"), El("audioconvert") >>,
      << El("audioconvert"), El("audioresample") >>,
      << El("audioresample"), El("identity") >>,
      << El("identity"), El("avenc_aac") >>,
      << El("avenc_aac"), El("aacparse") >>,
      << El("aacparse"), El("mpegtsmux") >> }

\* The streams announced on a live graph, all with caps, at most one per kind,
\* and every callback has returned or aborted.
LiveCaps == { streams[i].caps : i \in { j \in DOMAIN streams : streams[j].graphAlive } }
AtMostOnePerKind ==
    \A i, j \in DOMAIN streams :
        (i # j /\ streams[i].graphAlive /\ streams[j].graphAlive
            /\ streams[i].caps = streams[j].caps)
        => streams[i].caps = TextRaw

\* C10: the final topology depends on which kinds were discovered and not on
\* their order: Video and Audio in either order give the same links, and one
\* kind alone gives that kind's chain, the other branch unlinked, no error.
C10_OrderIndependent ==
    (/\ started
     /\ \A i \in DOMAIN streams : Finished(i)
     /\ NoCaps \notin LiveCaps
     /\ AtMostOnePerKind
     /\ VideoLinkable /\ AudioLinkable)
    => /\ ~panicked
       /\ Topology = StaticTopology
                       \cup (IF VideoRaw \in LiveCaps THEN VideoTopology ELSE {})
                       \cup (IF AudioRaw \in LiveCaps THEN AudioTopology ELSE {})

C10_Witness ==
    /\ Len(streams) = 2
    /\ streams[1].caps = AudioRaw /\ streams[1].outcome = "linked"
    /\ streams[2].caps = VideoRaw /\ streams[2].outcome = "linked"
    /\ Topology = StaticTopology \cup VideoTopology \cup AudioTopology

\* ------------------------------------------------------------- C11
\* How often an element of the given name was instantiated.
TimesCreated(n) == Cardinality({ k \in DOMAIN created : created[k] = n })

\* C11: the graph a successful build() returns holds exactly one source, one
\* decoder, one muxer, one segmenter and every stage of the two branches, each
\* instantiated once; the source is linked to the decoder and the muxer to the
\* segmenter, and there is no other link: none from the decoder to a branch
\* and none inside a branch.
C11_BuiltGraph ==
    (pc = "play") =>
        /\ nodes = { "filesrc", "decodebin", "mpegtsmux", "hls_sink",
                     "video_queue", "videoscale", "capsfilter", "video_encoder",
                     "h264parse", "audio_queue", "audioconvert", "audioresample",
                     "identity", "avenc_aac", "aacparse" }
        /\ \A n \in nodes : TimesCreated(n) = 1
        /\ Len(created) = Cardinality(nodes)
        /\ links = { << << "filesrc", 0 >>, << "decodebin", 0 >> >>,
                     << << "mpegtsmux", 0 >>, << "hls_sink", 0 >> >> }
C11_Witness ==
    /\ pc = "play" /\ owner /\ result = NoResult
    /\ Cardinality(nodes) = 15
    /\ Len(linkLog) = 2

\* ------------------------------------------------------------- C12
\* The stages in the order build() takes them, each with the factory the
\* engine instantiates it from.
BuildOrder ==
    << [name |-> "filesrc", factory |-> "filesrc"],
       [name |-> "decodebin", factory |-> "decodebin"],
       [name |-> "video_queue", factory |-> "queue"],
       [name |-> "videoscale", factory |-> "videoscale"],
       [name |-> "capsfilter", factory |-> "capsfilter"],
       [name |-> "video_encoder", factory |-> EncoderFactory(nvh)],
       [name |-> "h264parse", factory |-> "h264parse"],
       [name |-> "audio_queue", factory |-> "queue"],
       [name |-> "audioconvert", factory |-> "audioconvert"],
       [name |-> "audioresample", factory |-> "audioresample"],
       [name |-> "identity", factory |-> "identity"],
       [name |-> "avenc_aac", factory |-> "avenc_aac"],
       [name |-> "aacparse", factory |-> "aacparse"],
       [name |-> "mpegtsmux", factory |-> "mpegtsmux"],
       [name |-> "hls_sink", factory |-> "hlssink"] >>
\* The first stage of that order the engine cannot instantiate, 0 if none.
FailingStage ==
    IF \E k \in DOMAIN BuildOrder : BuildOrder[k].factory \notin registry
    THEN CHOOSE k \in DOMAIN BuildOrder :
            /\ BuildOrder[k].factory \notin registry
            /\ \A j \in 1 .. (k - 1) : BuildOrder[j].factory \in registry
    ELSE 0
\* Construction and build are over, one way or the other.
BuildOver == panicked \/ pc \notin { "new", "build" }

\* C12: when a stage cannot be instantiated, constructing and building the
\* pipeline does not abort the process; it ends with an error that names the
\* failing stage's factory, no graph is returned, and no stage after the
\* failing one was created.
C12_FirstErrorNoGraph ==
    (FailingStage # 0 /\ BuildOver) =>
        /\ ~panicked
        /\ result # NoResult /\ result.kind = "Err"
        /\ \E k \in DOMAIN result.text :
              result.text[k] = BuildOrder[FailingStage].factory
        /\ ~owner
        /\ \A k \in DOMAIN BuildOrder :
              k > FailingStage => TimesCreated(BuildOrder[k].name) = 0

\* ------------------------------------------------------------- C13
\* Selecting the encoder was attempted.
SelectionAttempted == panicked \/ last.op # "none"

\* C13: when the engine cannot instantiate the selected encoder variant,
\* constructing the pipeline yields an error value and does not panic.
C13_EncoderFailureIsError ==
    (EncoderFactory(nvh) \notin registry /\ SelectionAttempted) =>
        /\ ~panicked
        /\ result.kind = "Err"

\* ------------------------------------------------------------- C14
\* C14: with_bitrate of either variant, called directly or by
\* PipelineBuilder::new, stores c = min(b, 2048000) when c <= 1000000 and
\* c / 1000 otherwise: 500000 and 1000000 are stored as they are, 3000000 as
\* 2048; a stored bitrate never exceeds 2048000.
C14_BitrateClamp ==
    /\ enc.bitrate # Unset => enc.bitrate[1] <= 2048000
    /\ last.op \in { "with_bitrate", "new_bitrate" } =>
        LET b == last.num
            c == IF b < 2048000 THEN b ELSE 2048000
        IN  /\ enc.bitrate = << IF c <= 1000000 THEN c ELSE c \div 1000 >>
            /\ b = 500000 => enc.bitrate = << 500000 >>
            /\ b = 1000000 => enc.bitrate = << 1000000 >>
            /\ b = 3000000 => enc.bitrate = << 2048 >>
C14_Witness ==
    /\ last.op = "with_bitrate" /\ last.num = 3000000
    /\ enc.variant = "Nvenc"
    /\ enc.bitrate = << 2048 >>

\* ------------------------------------------------------------- C15
\* C15: with_bframes of either variant stores min(n, 4); a stored B-frame
\* count never exceeds 4.
C15_BframesCap ==
    /\ enc.bframes # Unset => enc.bframes[1] <= 4
    /\ last.op = "with_bframes" =>
        enc.bframes = << IF last.num < 4 THEN last.num ELSE 4 >>
C15_Witness ==
    /\ last.op = "with_bframes" /\ last.num = 10
    /\ enc.variant = "X264"
    /\ enc.bframes = << 4 >>
    /\ last.n = 2

\* ------------------------------------------------------------- C16
\* C16: with_gop_size of either variant stores -1 for a size below -1 and the
\* size itself otherwise; a stored GOP size lies in [-1, 2147483647].
C16_GopSizeClamp ==
    /\ enc.gop_size # Unset =>
        (enc.gop_size[1] >= -1 /\ enc.gop_size[1] <= 2147483647)
    /\ last.op = "with_gop_size" =>
        enc.gop_size = << IF last.num < -1 THEN -1 ELSE last.num >>
C16_Witness ==
    /\ last.op = "with_gop_size" /\ last.num = -5
    /\ enc.variant = "X264"
    /\ enc.gop_size = << -1 >>

\* ------------------------------------------------------------- C17
\* C17: with_profile of the hardware encoder succeeds and stores the profile
\* exactly when it is one of main, high, high-4:4:4, baseline and
\* constrained-baseline, and returns an invalid-profile error otherwise.
C17_ProfileValidated ==
    (last.op = "with_profile" /\ enc.variant = "Nvenc") =>
        IF last.str \in { "main", "high", "high-4:4:4", "baseline", "constrained-baseline" }
        THEN last.ret = "Ok" /\ enc.profile = << last.str >>
        ELSE /\ last.ret = "Err"
             /\ SubSeq(last.text, 1, 2) = << "Invalid profile: ", last.str >>
C17_Witness ==
    /\ last.op = "with_profile" /\ enc.variant = "Nvenc"
    /\ last.str = "extended" /\ last.ret = "Err"
    /\ last.before.profile = << "baseline" >>

\* ------------------------------------------------------------- C18
\* C18: without acceleration the software variant is selected, its list of
\* valid profiles is empty, and with_profile on it succeeds for every
\* profile: it neither fails nor aborts.
C18_SoftwareAnyProfile ==
    /\ (~nvh /\ enc.variant # "None") =>
        (enc.variant = "X264" /\ XValidProfiles = {})
    /\ (last.op = "with_profile" /\ enc.variant = "X264") =>
        (last.ret = "Ok" /\ ~panicked)

\* ------------------------------------------------------------- C19
\* C19: after with_profile returned an error, profile, bitrate, B-frames,
\* GOP size, preset and rate-control mode are what they were before the call.
C19_FailedProfileLeavesConfig ==
    (last.op = "with_profile" /\ last.ret = "Err") =>
        /\ enc.profile = last.before.profile
        /\ enc.bitrate = last.before.bitrate
        /\ enc.bframes = last.before.bframes
        /\ enc.gop_size = last.before.gop_size
        /\ enc.preset = last.before.preset
        /\ enc.rc_mode = last.before.rc_mode
C19_Witness ==
    /\ last.op = "with_profile" /\ last.ret = "Err" /\ last.str = "High"
    /\ enc.profile = << "high" >>
    /\ enc.bitrate = << 1000 >>

\* ------------------------------------------------------------- C20
\* C20: with acceleration the hardware variant is selected; before the
\* caller's bitrate is applied it holds bitrate 1000, 0 B-frames, GOP size 75,
\* preset hp and rate control cbr; after PipelineBuilder::new the bitrate is
\* the clamped caller's bitrate and the other four are unchanged.
C20_HardwareDefaults ==
    /\ (nvh /\ enc.variant # "None") => enc.variant = "Nvenc"
    /\ (nvh /\ last.op = "default") =>
        /\ enc.bitrate = << 1000 >>
        /\ enc.bframes = << 0 >>
        /\ enc.gop_size = << 75 >>
        /\ enc.preset = << "hp" >>
        /\ enc.rc_mode = << "cbr" >>
    /\ (nvh /\ last.op = "new_bitrate") =>
        LET c == IF last.num < 2048000 THEN last.num ELSE 2048000
        IN  /\ enc.bitrate = << IF c > 1000000 THEN c \div 1000 ELSE c >>
            /\ enc.bframes = << 0 >>
            /\ enc.gop_size = << 75 >>
            /\ enc.preset = << "hp" >>
            /\ enc.rc_mode = << "cbr" >>
C20_Witness ==
    /\ nvh /\ last.op = "new_bitrate" /\ last.num = 2048001
    /\ last.before.bitrate = << 1000 >>
    /\ enc.bitrate = << 2048 >>
    /\ enc.gop_size = << 75 >>

\* ------------------------------------------------------------- C21
\* The default builder of the variant that was not selected.
OtherDefault == IF enc.variant = "Nvenc" THEN XDefault ELSE NvDefault

\* C21: H264Encoder::with_bitrate stores, for the bitrate it is given, the
\* value it would store on the other variant, which is the clamped bitrate
\* and never a bitrate above 1000000 as it came in; the variant it was given
\* is the variant it returns.
C21_UniformClamp ==
    (last.op = "new_bitrate") =>
        LET b == last.num
            c == IF b < 2048000 THEN b ELSE 2048000
        IN  /\ enc.bitrate = H264EncoderWithBitrate(OtherDefault, b).bitrate
            /\ enc.bitrate = << IF c > 1000000 THEN c \div 1000 ELSE c >>
            /\ b > 1000000 => enc.bitrate # << b >>
            /\ enc.variant = last.before.variant
            /\ enc.variant = (IF nvh THEN "Nvenc" ELSE "X264")
C21_Witness ==
    /\ last.op = "new_bitrate" /\ last.num = 3000000
    /\ enc.variant = "X264"
    /\ enc.bitrate = << 2048 >>
    /\ enc.bitrate = H264EncoderWithBitrate(NvDefault, 3000000).bitrate

\* ------------------------------------------------------------- C30
\* C30: a bitrate stored by with_bitrate is at most 1000000, a bitrate above
\* 1000000 is stored as a value from 1000 to 2048, and with_bitrate given a
\* value it stored before stores that value again.
C30_ClampIdempotent ==
    (last.op \in { "with_bitrate", "new_bitrate" }) =>
        /\ enc.bitrate # Unset
        /\ enc.bitrate[1] <= 1000000
        /\ last.num > 1000000 => (enc.bitrate[1] >= 1000 /\ enc.bitrate[1] <= 2048)
        /\ last.before.bitrate = << last.num >> => enc.bitrate = << last.num >>
        /\ WithBitrate(enc, enc.bitrate[1]).bitrate = enc.bitrate
C30_Witness ==
    /\ last.op = "with_bitrate" /\ last.num = 2048 /\ last.n = 2
    /\ last.before.bitrate = << 2048 >>
    /\ enc.variant = "X264"
    /\ enc.bitrate = << 2048 >>

\* ------------------------------------------------------------- C22
\* The links of the two branches, whichever stream they start from.
BranchLinks ==
    { l \in links : l \notin { << << "filesrc", 0 >>, << "decodebin", 0 >> >>,
                               << << "mpegtsmux", 0 >>, << "hls_sink", 0 >> >> } }

\* C22: once Playing has been requested the source is linked to the decoder;
\* as long as it has not been requested no callback has fired, no branch link
\* exists and no link attempt was made by a callback, also after build() has
\* returned.
C22_StaticBeforeDynamic ==
    /\ requests # << >> =>
        /\ requests[1] = "Playing"
        /\ << << "filesrc", 0 >>, << "decodebin", 0 >> >> \in links
    /\ requests = << >> =>
        /\ streams = << >>
        /\ BranchLinks = {}
        /\ \A n \in DOMAIN linkLog : linkLog[n].by = 0
    /\ BranchLinks # {} => (requests # << >> /\ streams # << >>)
C22_Witness ==
    /\ requests = << "Playing" >> /\ pc = "loop"
    /\ << << "filesrc", 0 >>, << "decodebin", 0 >> >> \in links
    /\ << << "video_queue", 0 >>, << "videoscale", 0 >> >> \in links
    /\ << << "audio_queue", 0 >>, << "audioconvert", 0 >> >> \notin links

\* ------------------------------------------------------------- C27
\* C27: a callback that found the graph destroyed looks nothing up and tries
\* no link; a callback that found it alive keeps it alive while it runs,
\* whether or not the control thread still holds it; every lookup and every
\* link attempt of a callback is that of a callback that passed the check.
C27_NoLinkOnDestroyedGraph ==
    \A i \in DOMAIN streams :
        /\ streams[i].outcome = "nograph" <=> ~streams[i].graphAlive
        /\ streams[i].outcome = "running" => GraphAlive
        /\ (LogBy(i) # << >> \/ \E l \in lookups : l[1] = i) => streams[i].graphAlive
        /\ streams[i].outcome \in { "linked", "panic", "ignored" } => streams[i].graphAlive
C27_Witness ==
    /\ ~owner /\ pc = "done"
    /\ Len(streams) = 1
    /\ streams[1].outcome = "running"
    /\ streams[1].graphAlive
    /\ streams[1].caps = VideoRaw
    /\ LogBy(1) = << >>

\* ------------------------------------------------------------- C28
\* C28: a Null request does not hold a callback back: a callback that finds
\* the graph existing after the control thread requested Null passes the
\* validity check like any other, and goes on to link its branch.
C28_NullNotSynchronised ==
    \A i \in DOMAIN streams :
        (streams[i].afterNull /\ streams[i].graphAlive) =>
            /\ streams[i].outcome # "nograph"
            /\ (streams[i].outcome = "linked" /\ streams[i].caps = VideoRaw) =>
                  << SrcPad(i), << "video_queue", 0 >> >> \in links
            /\ (streams[i].outcome = "linked" /\ streams[i].caps = AudioRaw) =>
                  << SrcPad(i), << "audio_queue", 0 >> >> \in links
C28_Witness ==
    /\ requests = << "Playing", "Null" >>
    /\ Len(streams) = 1
    /\ streams[1].afterNull /\ streams[1].graphAlive
    /\ streams[1].outcome = "linked"
    /\ << SrcPad(1), << "audio_queue", 0 >> >> \in links
    /\ << << "aacparse", 0 >>, << "mpegtsmux", 0 >> >> \in links

\* ------------------------------------------------------------- C29
\* The links that end in the muxer.
MuxerInputs == { l \in links : l[2] = << "mpegtsmux", 0 >> }
\* Some stream of the given caps has been linked.
Routed(c) == \E i \in DOMAIN streams : streams[i].caps = c /\ streams[i].outcome = "linked"

\* C29: no step removes a link; the links a callback adds are links of the
\* branch of its stream's kind, so that the other branch, the link from the
\* source to the decoder and the link from the muxer to the segmenter stay as
\* they are; no stage but the muxer belongs to both branches, and once a video
\* and an audio stream are routed the muxer has exactly two inputs linked.
C29_RoutingFrame ==
    /\ [](LinksOf(ExpectedVideo(0)) \cap LinksOf(ExpectedAudio(0)) = {})
    /\ []((Routed(VideoRaw) /\ Routed(AudioRaw)) =>
            MuxerInputs = { << << "h264parse", 0 >>, << "mpegtsmux", 0 >> >>,
                            << << "aacparse", 0 >>, << "mpegtsmux", 0 >> >> })
    /\ [][/\ links \subseteq links'
          /\ (InFlight /\ links' # links) =>
                IF streams[Len(streams)].caps = VideoRaw
                THEN (links' \ links) \subseteq LinksOf(ExpectedVideo(Len(streams)))
                ELSE /\ streams[Len(streams)].caps = AudioRaw
                     /\ (links' \ links) \subseteq LinksOf(ExpectedAudio(Len(streams)))]_vars
C29_Witness ==
    /\ Routed(VideoRaw) /\ Routed(AudioRaw)
    /\ Cardinality(MuxerInputs) = 2
    /\ << << "filesrc", 0 >>, << "decodebin", 0 >> >> \in links
    /\ << << "mpegtsmux", 0 >>, << "hls_sink", 0 >> >> \in links
    /\ Cardinality(links) = 15

\* ------------------------------------------------------------- C23
\* The events the control thread has taken, the non-terminal ones left out.
ConsumedTerminals == SelectSeq(SubSeq(events, 1, nConsumed), Terminal)

\* C23: an event that is neither end of stream nor an error leaves the
\* control thread in the loop with its result and its requests as they were;
\* what the run ends with is decided by the terminal event alone, whatever
\* other events came before it: end of stream leads to the Null request and
\* success (or that request's error), an error to the failure with its text.
C23_OtherEventsIgnored ==
    /\ Len(ConsumedTerminals) <= 1
    /\ (nConsumed > 0 /\ pc # "loop") => events[nConsumed].kind \in { "Eos", "Error" }
    /\ (nConsumed > 0 /\ ConsumedTerminals = << >>) =>
        (pc = "loop" /\ result.kind = "None" /\ requests = << "Playing" >>)
    /\ \A k \in 1 .. nConsumed :
        /\ events[k].kind = "Eos" =>
            /\ k = nConsumed
            /\ pc \in { "null", "ret", "done" }
            /\ requests = (IF pc = "null" THEN << "Playing" >> ELSE << "Playing", "Null" >>)
            /\ pc = "done" =>
                  result \in { [kind |-> "Ok", text |-> << >>],
                               [kind |-> "Err", text |-> << "Element failed to change its state" >>] }
        /\ events[k].kind = "Error" =>
            /\ k = nConsumed
            /\ pc = "done"
            /\ requests = << "Playing" >>
            /\ result = [kind |-> "Err", text |-> << "Error: " >> \o events[k].msg]
C23_Witness ==
    /\ events = << Other, Eos >>
    /\ nConsumed = 2
    /\ pc = "done"
    /\ result = Ok
    /\ requests = << "Playing", "Null" >>

\* ------------------------------------------------------------- C24
\* A terminal event is on the bus and has not been taken yet.
TerminalPending ==
    /\ pc = "loop"
    /\ \E k \in DOMAIN events : k > nConsumed /\ Terminal(events[k])

\* C24: the control thread leaves the loop only by taking a terminal event,
\* and requests Null only after it took one; while none is delivered it stays
\* in the loop. With a terminal event on the bus the run ends: main returns,
\* unless a callback's panic aborts the process first.
C24_LeavesLoopIffTerminal ==
    /\ [][(pc = "loop" /\ pc' # "loop") =>
            /\ nConsumed' = nConsumed + 1
            /\ events[nConsumed'].kind \in { "Eos", "Error" }]_vars
    /\ []((\E k \in DOMAIN requests : requests[k] = "Null") =>
            (nConsumed > 0 /\ events[nConsumed].kind = "Eos"))
    /\ (TerminalPending ~> (pc = "done" \/ panicked))
C24_Witness ==
    /\ events = << Other, Error(<< "not-linked" >>) >>
    /\ nConsumed = 2
    /\ pc = "done"
    /\ requests = << "Playing" >>

\* ------------------------------------------------------------- C25
\* C25: the control thread requests Playing once, before it takes any event,
\* and after that at most Null, once; a failed request is not repeated and
\* nothing is requested after it; when the Playing request fails main returns
\* that error and no event was taken.
C25_OnePlayingNoRetry ==
    /\ requests \in { << >>, << "Playing" >>, << "Playing", "Null" >> }
    /\ pc \in { "loop", "null", "ret" } => requests # << >>
    /\ (nConsumed > 0 \/ events # << >> \/ streams # << >>) => requests # << >>
    /\ (requests = << "Playing" >> /\ state = "Null") =>
        /\ pc = "done"
        /\ result = [kind |-> "Err",
                     text |-> << "Failed to set pipeline to playing state",
                                 "Element failed to change its state" >>]
        /\ nConsumed = 0 /\ events = << >>
    /\ (requests = << "Playing", "Null" >> /\ state = "Playing") =>
        /\ pc = "done"
        /\ result = [kind |-> "Err", text |-> << "Element failed to change its state" >>]
C25_Witness ==
    /\ requests = << "Playing" >> /\ state = "Null"
    /\ pc = "done"
    /\ result.kind = "Err"
    /\ nConsumed = 0
    /\ nodes # {}

\* ------------------------------------------------------------- C26
\* The requests made so far are the first ones of Ready, Paused, Playing, Null.
InTestOrder ==
    /\ Len(requests) <= 4
    /\ requests = SubSeq(<< "Ready", "Paused", "Playing", "Null" >>, 1, Len(requests))
\* The state the graph was in before the last request.
StateBefore ==
    IF Len(requests) <= 1 THEN "Null" ELSE requests[Len(requests) - 1]

====
